---- MODULE Spec2Model ----
(***************************************************************************)
(* A model of pydisdrometer/DropSizeDistribution.py: the                   *)
(* DropSizeDistribution object, its compute calls and its relationship     *)
(* fits.                                                                   *)
(*                                                                         *)
(* Numbers.  A Python/numpy float is a record [n, d] read as n/d:          *)
(*   d > 0            the finite value n/d, in lowest terms                *)
(*   n = 0, d = 1     +0.0          n = 0, d = -1    -0.0                  *)
(*   n = 1, d = 0     +inf          n = -1, d = 0    -inf                  *)
(*   n = 0, d = 0     NaN                                                  *)
(* Arithmetic is exact on finite values (rounding is not modelled) and     *)
(* follows IEEE 754 for zeros, infinities and NaN, which is what numpy     *)
(* float64 does (a division by zero warns, it does not raise).             *)
(*                                                                         *)
(* Units.  Diameters, bin edges and spreads are whole millimetres.         *)
(* rain_rate entries are multiples of 0.6*pi*1e-3, the constant of         *)
(* calculate_RR; fall velocities are fixed-point numbers of scale 100.     *)
(* cum_W of _calculate_D0 is held in units of W_const = 1e-3*pi/6: the     *)
(* positive factor leaves every comparison, every sign and every zero of   *)
(* the function as it is and cancels in its result.                        *)
(*                                                                         *)
(* An attribute that may be missing, or None, is a record [has, val].      *)
(*                                                                         *)
(* op, exc and ret are the last call, the exception it ended in ("none"    *)
(* for a return) and what it returned; fit_args are the arrays that call   *)
(* handed to expfit or expfit2, if it reached one.                         *)
(***************************************************************************)
EXTENDS Integers, Sequences, FiniteSets, TLC

VARIABLES
    time, Nd, spread, bin_edges, diameter, rain_rate, velocity,
    Zh, Zdr, Kdp, Ai,
    Nt, W, D0, Nw, Dmax, Dm,
    op, exc, ret, fit_args,
    first_dsd, first_rr, phase

inputs == <<time, Nd, spread, bin_edges, diameter, velocity>>
radar == <<Zh, Zdr, Kdp, Ai>>
dsd_fields == <<Nt, W, D0, Nw, Dmax, Dm>>
call == <<op, exc, ret, fit_args>>
ghost == <<first_dsd, first_rr, phase>>
vars == <<inputs, rain_rate, radar, dsd_fields, call, ghost>>

(* ------------------------------------------------------------ bounds --- *)

\* Largest number of cells T*N of the Nd matrix in the DSD specification.
MaxCells == 4
\* Largest number of timesteps in the full specification.
MaxT == 3
\* The large drop concentration of a bin (the small ones are 0 and 1).
NdBig == 100

NdVals == {0, 1, NdBig}
SpreadVals == {1, 2}
MomentOrders == {0, 3, 4}

(* ------------------------------------------------------------ floats --- *)

Abs(x) == IF x < 0 THEN -x ELSE x
Sgn(x) == IF x < 0 THEN -1 ELSE IF x = 0 THEN 0 ELSE 1

RECURSIVE GCD(_, _)
GCD(a, b) == IF b = 0 THEN a ELSE GCD(b, a % b)

RECURSIVE Pow(_, _)
Pow(b, e) == IF e = 0 THEN 1 ELSE b * Pow(b, e - 1)

\* The float n/d, normalised.
Norm(n, d) ==
    IF d = 0 THEN [n |-> Sgn(n), d |-> 0]
    ELSE IF n = 0 THEN [n |-> 0, d |-> Sgn(d)]
    ELSE LET g == GCD(Abs(n), Abs(d))
         IN  [n |-> Sgn(n) * Sgn(d) * (Abs(n) \div g), d |-> Abs(d) \div g]

Flt(i) == Norm(i, 1)
IsNaN(x) == x.n = 0 /\ x.d = 0
IsFinite(x) == x.d # 0

\* x / y of two floats (IEEE 754: signed zeros, infinities, NaN).
FDiv(x, y) == Norm(x.n * y.d, x.d * y.n)

\* i + x for an integer i and a float x.
FAddInt(i, x) == IF x.d = 0 THEN x ELSE Norm(i * x.d + x.n, x.d)

\* x > 0 as numpy evaluates it: False for NaN and for both zeros.
FPos(x) == x.n > 0

\* x < y for two finite floats.
FLess(x, y) == x.n * Abs(y.d) < y.n * Abs(x.d)

Some(v) == [has |-> TRUE, val |-> v]
None == [has |-> FALSE, val |-> <<>>]

\* An array one element short.
zeros_short(n) == [i \in 1..(n - 1) |-> Flt(0)]

\* np.zeros(n)
zeros(n) == [i \in 1..n |-> Flt(0)]

T == Len(time)
NBins == Len(diameter)

(* ------------------------------------------------- the DSD operations --- *)

\* bin_width of _calc_mth_moment: the widths between the bin edges.
bin_width(i) == bin_edges[i + 1] - bin_edges[i]

\* One element of np.multiply(np.multiply(dmth, self.Nd), bin_width): the
\* product is taken with the whole matrix self.Nd, so it has T rows.
moment_product(m, t, i) == Pow(diameter[i], m) * Nd[t][i] * bin_width(i)

\* _calc_mth_moment(m).  The statement mth_moment[t] = <the T x N product>
\* stores an array into one element: numpy takes it when the array has a
\* single element and raises ValueError otherwise, at t = 0.
calc_mth_moment(m) ==
    IF T * NBins = 1
    THEN [exc |-> "none", val |-> [t \in 1..T |-> Flt(moment_product(m, 1, 1))]]
    ELSE [exc |-> "ValueError", val |-> <<>>]

\* np.dot(a, b) of two integer vectors.
RECURSIVE dot(_, _, _)
dot(a, b, k) == IF k = 0 THEN 0 ELSE dot(a, b, k - 1) + a[k] * b[k]

\* np.cumsum([N[k]*spread[k]*diameter[k]**3 ...])[k], in units of W_const.
RECURSIVE cum_W(_, _)
cum_W(N, k) ==
    IF k = 0 THEN 0
    ELSE cum_W(N, k - 1) + N[k] * spread[k] * Pow(diameter[k], 3)

\* The position (from 1) that Python's index i reads in a sequence of
\* length n: a negative index counts from the end.
PyIndex(i, n) == IF i < 0 THEN i + n + 1 ELSE i + 1

\* cross_pt of _calculate_D0, as the Python index it is:
\* list(cum_W < cum_W[-1]*0.5).index(False) - 1.
cross_pt(N) ==
    LET n == Len(N)
        first == CHOOSE k \in 1..n :
                    /\ ~(2 * cum_W(N, k) < cum_W(N, n))
                    /\ \A j \in 1..(k - 1) : 2 * cum_W(N, j) < cum_W(N, n)
    IN  (first - 1) - 1

\* _calculate_D0(N)
calculate_D0(N) ==
    LET n == Len(N)
        lo == PyIndex(cross_pt(N), n)
        hi == PyIndex(cross_pt(N) + 1, n)
        slope == FDiv(Flt(cum_W(N, hi) - cum_W(N, lo)),
                      Flt(diameter[hi] - diameter[lo]))
        run == FDiv(Norm(cum_W(N, n) - 2 * cum_W(N, lo), 2), slope)
    IN  FAddInt(diameter[lo], run)

\* __get_last_nonzero(N): np.max(N.nonzero()), a Python index; np.max of an
\* empty array raises ValueError.
get_last_nonzero(N) ==
    LET nz == {k \in 1..Len(N) : N[k] # 0}
    IN  IF nz = {} THEN [exc |-> "ValueError", val |-> 0]
        ELSE [exc |-> "none",
              val |-> (CHOOSE k \in nz : \A j \in nz : j <= k) - 1]

\* calc_dsd_parameterization().  Lines 194-199 reset the six fields; line
\* 203 needs two moments; the loop body stores Nt[0] and then evaluates
\* array(self.diameter), a name the module never binds: NameError.  Lines
\* 208-211 are therefore never reached.
calc_dsd_parameterization ==
    LET m4 == calc_mth_moment(4)
        m3 == calc_mth_moment(3)
    IN  /\ op' = "calc_dsd_parameterization"
        /\ ret' = 0
        /\ W' = Some(zeros(T))
        /\ D0' = Some(zeros(T))
        /\ Nw' = Some(zeros(T))
        /\ Dmax' = Some(zeros(T))
        /\ IF m4.exc # "none"
           THEN /\ exc' = m4.exc
                /\ Nt' = Some(zeros(T))
                /\ Dm' = Some(zeros(T))
           ELSE /\ exc' = "NameError"
                /\ Dm' = Some([t \in 1..T |-> FDiv(m4.val[t], m3.val[t])])
                /\ Nt' = Some([zeros(T) EXCEPT
                                 ![1] = Flt(dot(spread, Nd[1], NBins))])
        /\ fit_args' = None
        /\ UNCHANGED <<inputs, rain_rate, radar>>

\* 1000 * exp(-0.6 * k) for a whole k >= 0, in fixed point.
RECURSIVE ExpFixed(_)
ExpFixed(k) == IF k = 0 THEN 1000 ELSE (ExpFixed(k - 1) * 549) \div 1000

\* The velocity without the assignment velocity[0] = 0.5.
rr_velocity_no_override(i) == 965 - ((103 * ExpFixed(diameter[i])) \div 100)

\* velocity of calculate_RR, scale 100: 9.65 - 10.3*exp(-0.6*diameter),
\* then velocity[0] = 0.5.
rr_velocity(i) ==
    IF i = 1 THEN 50 ELSE 965 - ((103 * ExpFixed(diameter[i])) \div 100)

\* _mmultiply(velocity, Nd[t], spread, diameter**3)[i]
mmultiply(t, i) ==
    1 * rr_velocity(i) * Nd[t][i] * spread[i] * Pow(diameter[i], 3)

RECURSIVE np_sum(_, _)
np_sum(t, k) == IF k = 0 THEN 0 ELSE np_sum(t, k - 1) + mmultiply(t, k)

\* calculate_RR without the reset of line 241, adding to what is there.
calculate_RR_accumulate ==
    /\ op' = "calculate_RR"
    /\ exc' = "none"
    /\ ret' = 0
    /\ rain_rate' =
          Some([t \in 1..T |->
                  IF rain_rate.has
                  THEN Norm(rain_rate.val[t].n * 100
                                + np_sum(t, NBins) * rain_rate.val[t].d,
                            rain_rate.val[t].d * 100)
                  ELSE Norm(np_sum(t, NBins), 100)])
    /\ fit_args' = None
    /\ UNCHANGED <<inputs, radar, dsd_fields>>

\* calculate_RR()
calculate_RR ==
    /\ op' = "calculate_RR"
    /\ exc' = "none"
    /\ ret' = 0
    /\ rain_rate' = Some([t \in 1..T |-> Norm(np_sum(t, NBins), 100)])
    /\ fit_args' = None
    /\ UNCHANGED <<inputs, radar, dsd_fields>>

(* --------------------------------------- direct calls of the helpers --- *)

Call_calc_mth_moment ==
    \E m \in MomentOrders :
        /\ op' = "_calc_mth_moment"
        /\ exc' = calc_mth_moment(m).exc
        /\ ret' = [m |-> m, val |-> calc_mth_moment(m).val]
        /\ fit_args' = None
        /\ UNCHANGED <<inputs, rain_rate, radar, dsd_fields>>

Call_calculate_D0 ==
    \E t \in 1..T :
        /\ op' = "_calculate_D0"
        /\ exc' = "none"
        /\ ret' = [t |-> t, val |-> calculate_D0(Nd[t])]
        /\ fit_args' = None
        /\ UNCHANGED <<inputs, rain_rate, radar, dsd_fields>>

Call_get_last_nonzero ==
    \E t \in 1..T :
        /\ op' = "__get_last_nonzero"
        /\ exc' = get_last_nonzero(Nd[t]).exc
        /\ ret' = [t |-> t, val |-> get_last_nonzero(Nd[t]).val]
        /\ fit_args' = None
        /\ UNCHANGED <<inputs, rain_rate, radar, dsd_fields>>

(* ------------------------------------------------------ construction --- *)

\* __init__: the nine arguments are stored (Z and num_particles, which no
\* method reads, are left out); Zh, Zdr, Kdp and Ai are zero arrays of
\* length len(time).  Nt, W, D0, Nw, Dmax and Dm are not set.
Construct(t, nd, sp, edges, diam, rr, vel) ==
    /\ time = [i \in 1..t |-> i]
    /\ Nd = nd
    /\ spread = sp
    /\ rain_rate = rr
    /\ velocity = vel
    /\ bin_edges = edges
    /\ diameter = diam
    /\ Zh = zeros(t)
    /\ Zdr = zeros(t)
    /\ Kdp = zeros(t)
    /\ Ai = zeros(t)
    /\ Nt = None /\ W = None /\ D0 = None
    /\ Nw = None /\ Dmax = None /\ Dm = None
    /\ op = "__init__" /\ exc = "none" /\ ret = 0 /\ fit_args = None
    /\ first_dsd = None /\ first_rr = None /\ phase = 0

\* The bins a reader delivers: n bins of width 2 mm from 0 mm on.
Edges(n) == [i \in 1..(n + 1) |-> 2 * (i - 1)]
Centres(n) == [i \in 1..n |-> 2 * i - 1]

InitDSD ==
    \E t \in 1..MaxCells, n \in 1..MaxCells :
        /\ t * n <= MaxCells
        /\ \E nd \in [1..t -> [1..n -> NdVals]], s \in SpreadVals,
              supplied \in BOOLEAN :
              Construct(t, nd, [i \in 1..n |-> s], Edges(n), Centres(n),
                        IF supplied THEN Some([i \in 1..t |-> Flt(1)]) ELSE None,
                        IF supplied THEN Some([i \in 1..n |-> 9]) ELSE None)

\* What the first call of each compute operation wrote, and how far the
\* run calc_dsd_parameterization, calculate_RR, calc_dsd_parameterization
\* has come.
History ==
    /\ first_dsd' = IF op' = "calc_dsd_parameterization" /\ ~first_dsd.has
                    THEN Some(dsd_fields') ELSE first_dsd
    /\ first_rr' = IF op' = "calculate_RR" /\ ~first_rr.has
                   THEN Some(rain_rate') ELSE first_rr
    /\ phase' = IF phase \in {0, 2} /\ op' = "calc_dsd_parameterization"
                THEN phase + 1
                ELSE IF phase = 1 /\ op' = "calculate_RR" THEN 2 ELSE phase

NextDSD ==
    \/ calc_dsd_parameterization /\ History
    \/ calculate_RR /\ History
    \/ Call_calc_mth_moment /\ History
    \/ Call_calculate_D0 /\ History
    \/ Call_get_last_nonzero /\ History

SpecDSD == InitDSD /\ [][NextDSD]_vars

(* -------------------------------------------- the radar parameters --- *)

\* What the scattering engine (pytmatrix, not part of this repository) may
\* return for one timestep: Zh and Zdr in dB after 10*log10, Kdp and Ai.
ScatterOutcomes ==
    { [Zh |-> 20, Zdr |-> 10, Kdp |-> 1, Ai |-> 1],
      [Zh |-> -10, Zdr |-> 0, Kdp |-> 1, Ai |-> 1],
      [Zh |-> 10, Zdr |-> 10, Kdp |-> 0, Ai |-> 1] }

\* calc_radar_parameters(wavelength): every element of the four arrays is
\* assigned in place.
calc_radar_parameters ==
    \E out \in [1..T -> ScatterOutcomes] :
        /\ op' = "calc_radar_parameters"
        /\ exc' = "none"
        /\ ret' = 0
        /\ Zdr' = [t \in 1..T |-> Flt(out[t].Zdr)]
        /\ Zh' = [t \in 1..T |-> Flt(out[t].Zh)]
        /\ Kdp' = [t \in 1..T |-> Flt(out[t].Kdp)]
        /\ Ai' = [t \in 1..T |-> Flt(out[t].Ai)]
        /\ fit_args' = None
        /\ UNCHANGED <<inputs, rain_rate, dsd_fields>>

(* -------------------------------------------- the relationship fits --- *)

\* a >= 0 in place of a > 0.
greater_equal0(a) == [t \in 1..Len(a) |-> a[t].n >= 0 /\ ~IsNaN(a[t])]

\* a > 0 for an array a: a boolean mask.
greater0(a) == [t \in 1..Len(a) |-> FPos(a[t])]

\* np.logical_and(f, g)
logical_and(f, g) == [t \in 1..Len(f) |-> f[t] /\ g[t]]

\* a[filt] for a boolean mask filt: the elements at the True places, in
\* order.
RECURSIVE take(_, _, _)
take(a, filt, k) ==
    IF k = 0 THEN <<>>
    ELSE IF filt[k] THEN Append(take(a, filt, k - 1), a[k])
    ELSE take(a, filt, k - 1)

mask(a, filt) == take(a, filt, Len(a))

\* The filter without the test of rain_rate.
filt_kdp_no_rain == greater0(Kdp)

\* The filter of calc_R_kdp_relationship.
filt_kdp == logical_and(greater0(Kdp), greater0(rain_rate.val))

\* The filter of calc_R_Zh_relationship.
filt_zh == greater0(rain_rate.val)

\* The filter of calc_R_Zh_Zdr_relationship.
filt_zh_zdr ==
    logical_and(logical_and(greater0(rain_rate.val), greater0(Zdr)),
                greater0(Kdp))

\* The filter without the test of Zdr, which this fit does not use.
filt_zh_kdp_no_zdr == logical_and(greater0(rain_rate.val), greater0(Kdp))

\* The filter of calc_R_Zh_Kdp_relationship.
filt_zh_kdp ==
    logical_and(logical_and(greater0(rain_rate.val), greater0(Zdr)),
                greater0(Kdp))

\* The filter of calc_R_Zdr_Kdp_relationship.
filt_zdr_kdp ==
    logical_and(logical_and(greater0(rain_rate.val), greater0(Zdr)),
                greater0(Kdp))

\* _idb(db) of one value: 10 ** (0.1 * db), for a whole multiple of 10 dB.
idb1(x) ==
    LET k == x.n \div 10
    IN  IF k >= 0 THEN Norm(Pow(10, k), 1) ELSE Norm(1, Pow(10, -k))

\* _idb(db) of an array.
idb(a) == [t \in 1..Len(a) |-> idb1(a[t])]

\* expfit(x, y) and expfit2(xs, y) of the expfit module: what a call may end
\* in, given the number of free parameters of the model.  Fewer rows than
\* parameters is a fit failure; otherwise the solver converges and the
\* coefficients and their covariance are returned, or it does not.
fit_outcomes(nparams, y) ==
    IF Len(y) < nparams THEN {"FitFailure"} ELSE {"none", "NonConvergence"}

expfit(x, y) == fit_outcomes(2, y)
expfit2(xs, y) == fit_outcomes(3, y)

\* The end of a fit entry point: exc = "none" is the return of (popt, pcov).
FitCall(name, outcomes, xs, y) ==
    /\ op' = name
    /\ ret' = 0
    /\ \E o \in outcomes : exc' = o
    /\ fit_args' = Some([x |-> xs, y |-> y])
    /\ UNCHANGED <<inputs, rain_rate, radar, dsd_fields>>

\* rain_rate is None: the comparison with 0 or the indexing of None raises
\* TypeError before the fit is called.
FitTypeError(name) ==
    /\ op' = name
    /\ ret' = 0
    /\ exc' = "TypeError"
    /\ fit_args' = None
    /\ UNCHANGED <<inputs, rain_rate, radar, dsd_fields>>

calc_R_kdp_relationship ==
    IF ~rain_rate.has THEN FitTypeError("calc_R_kdp_relationship")
    ELSE LET x == mask(Kdp, filt_kdp)
             y == mask(rain_rate.val, filt_kdp)
         IN  FitCall("calc_R_kdp_relationship", expfit(x, y), <<x>>, y)

calc_R_Zh_relationship ==
    IF ~rain_rate.has THEN FitTypeError("calc_R_Zh_relationship")
    ELSE LET x == idb(mask(Zh, filt_zh))
             y == mask(rain_rate.val, filt_zh)
         IN  FitCall("calc_R_Zh_relationship", expfit(x, y), <<x>>, y)

calc_R_Zh_Zdr_relationship ==
    IF ~rain_rate.has THEN FitTypeError("calc_R_Zh_Zdr_relationship")
    ELSE LET x1 == idb(mask(Zh, filt_zh_zdr))
             x2 == idb(mask(Zdr, filt_zh_zdr))
             y == mask(rain_rate.val, filt_zh_zdr)
         IN  FitCall("calc_R_Zh_Zdr_relationship", expfit2(<<x1, x2>>, y),
                     <<x1, x2>>, y)

calc_R_Zh_Kdp_relationship ==
    IF ~rain_rate.has THEN FitTypeError("calc_R_Zh_Kdp_relationship")
    ELSE LET x1 == idb(mask(Zh, filt_zh_kdp))
             x2 == mask(Kdp, filt_zh_kdp)
             y == mask(rain_rate.val, filt_zh_kdp)
         IN  FitCall("calc_R_Zh_Kdp_relationship", expfit2(<<x1, x2>>, y),
                     <<x1, x2>>, y)

calc_R_Zdr_Kdp_relationship ==
    IF ~rain_rate.has THEN FitTypeError("calc_R_Zdr_Kdp_relationship")
    ELSE LET x1 == idb(mask(Zdr, filt_zdr_kdp))
             x2 == mask(Kdp, filt_zdr_kdp)
             y == mask(rain_rate.val, filt_zdr_kdp)
         IN  FitCall("calc_R_Zdr_Kdp_relationship", expfit2(<<x1, x2>>, y),
                     <<x1, x2>>, y)

(* ------------------------------------------- the whole object's life --- *)

\* The rain rates a reader may supply, in the unit of rain_rate.
RainVals == {0, 1}

Init ==
    \E t \in 1..MaxT :
        \E nd \in {[i \in 1..t |-> <<1>>]},
           rr \in {None} \cup {Some([i \in 1..t |-> Flt(f[i])]) :
                                 f \in [1..t -> RainVals]} :
            Construct(t, nd, <<2>>, Edges(1), Centres(1), rr, None)

Next ==
    \/ calc_radar_parameters /\ UNCHANGED ghost
    \/ calc_dsd_parameterization /\ UNCHANGED ghost
    \/ calculate_RR /\ UNCHANGED ghost
    \/ calc_R_kdp_relationship /\ UNCHANGED ghost
    \/ calc_R_Zh_relationship /\ UNCHANGED ghost
    \/ calc_R_Zh_Zdr_relationship /\ UNCHANGED ghost
    \/ calc_R_Zh_Kdp_relationship /\ UNCHANGED ghost
    \/ calc_R_Zdr_Kdp_relationship /\ UNCHANGED ghost

Spec == Init /\ [][Next]_vars

(* ------------------------------------------------------- properties --- *)

\* The sum of the first k elements of a sequence of integers.
RECURSIVE SeqSum(_, _)
SeqSum(q, k) == IF k = 0 THEN 0 ELSE SeqSum(q, k - 1) + q[k]

\* The m-th moment at timestep t as section 4.1 defines it.
MomentAt(m, t) ==
    SeqSum([i \in 1..NBins |-> Pow(diameter[i], m) * Nd[t][i] * spread[i]],
           NBins)

ZeroRow(t) == \A i \in 1..NBins : Nd[t][i] = 0
SpikeAt(t, k) == Nd[t][k] # 0 /\ \A i \in 1..NBins : i # k => Nd[t][i] = 0
MassBins(t) == {i \in 1..NBins : Nd[t][i] # 0}
AllZero(a) == \A t \in 1..Len(a) : a[t] = Flt(0)

\* C1: _calc_mth_moment(m) returns, without raising, the length-T array
\* whose entry t is the sum over the bins of diameter^m * Nd[t] * spread,
\* which is 0 for an all-zero row.
C1_moment_is_weighted_sum ==
    op = "_calc_mth_moment" =>
        /\ exc = "none"
        /\ ret.val = [t \in 1..T |-> Flt(MomentAt(ret.m, t))]

\* C5: for a row that is nonzero in exactly one bin k, _calculate_D0
\* returns exactly diameter[k].
C5_spike_returns_bin_diameter ==
    op = "_calculate_D0" =>
        \A k \in 1..NBins :
            SpikeAt(ret.t, k) => ret.val = Flt(diameter[k])

\* C10: when the half-mass crossing falls in the first bin (cross = -1),
\* _calculate_D0 does not read the last bin in place of the bin before bin
\* 0, and its result lies within the bins that hold mass.
C10_first_bin_crossing_stays_in_range ==
    (op = "_calculate_D0" /\ cross_pt(Nd[ret.t]) = -1 /\ NBins > 1
        /\ ~ZeroRow(ret.t)) =>
        /\ PyIndex(cross_pt(Nd[ret.t]), NBins) # NBins
        /\ IsFinite(ret.val)
        /\ \E lo \in MassBins(ret.t), hi \in MassBins(ret.t) :
              /\ ~FLess(ret.val, Flt(bin_edges[lo]))
              /\ ~FLess(Flt(bin_edges[hi + 1]), ret.val)

\* C6: with an all-zero row at some timestep t, calc_dsd_parameterization
\* does not raise, D0[t] and Dmax[t] are NaN, and the parameters of the
\* other timesteps are stored.
C6_zero_row_does_not_abort ==
    (op = "calc_dsd_parameterization" /\ \E t \in 1..T : ZeroRow(t)) =>
        /\ exc = "none"
        /\ \A t \in 1..T :
              IF ZeroRow(t)
              THEN IsNaN(D0.val[t]) /\ IsNaN(Dmax.val[t])
              ELSE Nt.val[t] = Flt(dot(spread, Nd[t], NBins))

\* The fall velocity the claim C4 names, scale 100: 0.5 for the first bin,
\* the exponential model for the others.
ClaimVelocity(i) ==
    IF i = 1 THEN 50 ELSE 965 - ((103 * ExpFixed(diameter[i])) \div 100)

\* C4: after calculate_RR, for every timestep t, rain_rate[t] is
\* 0.6*pi*1e-3 * sum_i v[i]*Nd[t][i]*spread[i]*diameter[i]^3 with v[0] = 0.5
\* and the exponential model elsewhere; a row whose only nonzero bin is
\* bin 0 gives 0.5*Nd[t][0]*spread[0]*diameter[0]^3 times the constant,
\* whatever velocity and rain_rate were supplied.
C4_rain_rate_formula ==
    op = "calculate_RR" =>
        /\ rain_rate.has
        /\ Len(rain_rate.val) = T
        /\ \A t \in 1..T :
              /\ rain_rate.val[t] =
                    Norm(SeqSum([i \in 1..NBins |->
                                   ClaimVelocity(i) * Nd[t][i] * spread[i]
                                       * Pow(diameter[i], 3)], NBins), 100)
              /\ SpikeAt(t, 1) =>
                    rain_rate.val[t] =
                        Norm(Nd[t][1] * spread[1] * Pow(diameter[1], 3), 2)

C4_witness ==
    /\ op = "calculate_RR"
    /\ velocity.has
    /\ NBins >= 2
    /\ \E t \in 1..T : SpikeAt(t, 1)
    /\ \E t \in 1..T : Nd[t][2] # 0

\* C9: the compute calls leave time, Nd, spread, bin_edges and diameter as
\* they are, and after any sequence of calc_dsd_parameterization and
\* calculate_RR calls the six DSD fields and rain_rate hold what the first
\* call of the operation that writes them left there.
C9_compute_calls_idempotent ==
    /\ [](/\ first_dsd.has => dsd_fields = first_dsd.val
          /\ first_rr.has => rain_rate = first_rr.val)
    /\ [][UNCHANGED <<time, Nd, spread, bin_edges, diameter>>]_vars

C9_witness ==
    /\ phase = 3
    /\ op = "calc_dsd_parameterization"
    /\ exc = "NameError"
    /\ Nt.val[1] # Flt(0)
    /\ rain_rate.val[1] # Flt(0)

(* -------------------------------------------- properties of the fits --- *)

\* The timesteps both positive in Kdp and rain_rate, and those positive in
\* rain_rate, Zdr and Kdp.
JointKdp == {t \in 1..T : FPos(Kdp[t]) /\ FPos(rain_rate.val[t])}
JointAll ==
    {t \in 1..T : FPos(rain_rate.val[t]) /\ FPos(Zdr[t]) /\ FPos(Kdp[t])}
JointZh == {t \in 1..T : FPos(rain_rate.val[t])}

\* The place of timestep t among the timesteps of J, in time order.
Rank(J, t) == Cardinality({u \in J : u <= t})

\* q holds exactly the elements of a at the timesteps of J, in time order.
RowsOf(q, a, J) ==
    /\ Len(q) = Cardinality(J)
    /\ \A t \in J : q[Rank(J, t)] = a[t]

SingleFits == {"calc_R_kdp_relationship", "calc_R_Zh_relationship"}
DoubleFits == {"calc_R_Zh_Zdr_relationship", "calc_R_Zh_Kdp_relationship",
               "calc_R_Zdr_Kdp_relationship"}

\* C2: calc_R_kdp_relationship passes to the fit exactly the timesteps with
\* Kdp > 0 and rain_rate > 0, in time order: predictor and target have the
\* same length, the number of jointly positive timesteps.
C2_kdp_fit_rows ==
    (op = "calc_R_kdp_relationship" /\ rain_rate.has) =>
        /\ fit_args.has
        /\ Len(fit_args.val.x[1]) = Len(fit_args.val.y)
        /\ RowsOf(fit_args.val.x[1], Kdp, JointKdp)
        /\ RowsOf(fit_args.val.y, rain_rate.val, JointKdp)

C2_witness ==
    /\ op = "calc_R_kdp_relationship"
    /\ rain_rate.has
    /\ JointKdp # {}
    /\ \E t \in 1..T : ~FPos(Kdp[t]) /\ FPos(rain_rate.val[t])
    /\ \E t \in 1..T : FPos(Kdp[t]) /\ ~FPos(rain_rate.val[t])

\* C3: each two-predictor fit takes both predictors and the target at the
\* timesteps with rain_rate > 0, Zdr > 0 and Kdp > 0, in time order, so the
\* three arrays have one length.
C3_double_fit_rows ==
    (op \in DoubleFits /\ rain_rate.has) =>
        /\ fit_args.has
        /\ Len(fit_args.val.x[1]) = Len(fit_args.val.y)
        /\ Len(fit_args.val.x[2]) = Len(fit_args.val.y)
        /\ RowsOf(fit_args.val.y, rain_rate.val, JointAll)
        /\ RowsOf(fit_args.val.x[1],
                  IF op = "calc_R_Zdr_Kdp_relationship"
                  THEN [t \in 1..T |-> idb1(Zdr[t])]
                  ELSE [t \in 1..T |-> idb1(Zh[t])],
                  JointAll)
        /\ RowsOf(fit_args.val.x[2],
                  IF op = "calc_R_Zh_Zdr_relationship"
                  THEN [t \in 1..T |-> idb1(Zdr[t])]
                  ELSE Kdp,
                  JointAll)

C3_witness ==
    /\ op = "calc_R_Zh_Kdp_relationship"
    /\ rain_rate.has
    /\ JointAll # {}
    /\ \E t \in 1..T : FPos(rain_rate.val[t]) /\ ~FPos(Zdr[t]) /\ FPos(Kdp[t])
    /\ \E t \in 1..T : FPos(rain_rate.val[t]) /\ FPos(Zdr[t]) /\ ~FPos(Kdp[t])

DsdPresent == \A f \in {Nt, W, D0, Nw, Dmax, Dm} : f.has
DsdAbsent == \A f \in {Nt, W, D0, Nw, Dmax, Dm} : ~f.has

\* C8: in every state each of Zh, Zdr, Kdp, Ai, Nt, W, D0, Nw, Dmax and Dm
\* exists and is an array of length T, and right after construction each is
\* all zeros.
C8_all_derived_fields_exist ==
    /\ \A a \in {Zh, Zdr, Kdp, Ai} : Len(a) = T
    /\ \A f \in {Nt, W, D0, Nw, Dmax, Dm} : f.has /\ Len(f.val) = T
    /\ op = "__init__" =>
          /\ \A a \in {Zh, Zdr, Kdp, Ai} : AllZero(a)
          /\ \A f \in {Nt, W, D0, Nw, Dmax, Dm} : AllZero(f.val)

\* C8, amended: Zh, Zdr, Kdp and Ai exist in every state as arrays of
\* length T and are all zeros right after construction.  Nt, W, D0, Nw,
\* Dmax and Dm do not exist after construction; a call of
\* calc_dsd_parameterization creates the six, and from then on each exists
\* as an array of length T.
C8_fields_exist_once_computed ==
    /\ [](/\ \A a \in {Zh, Zdr, Kdp, Ai} : Len(a) = T
          /\ op = "__init__" =>
                /\ \A a \in {Zh, Zdr, Kdp, Ai} : AllZero(a)
                /\ DsdAbsent
          /\ op = "calc_dsd_parameterization" => DsdPresent
          /\ DsdPresent \/ DsdAbsent
          /\ \A f \in {Nt, W, D0, Nw, Dmax, Dm} : f.has => Len(f.val) = T)
    /\ [][DsdPresent => DsdPresent']_vars

C8_witness ==
    /\ op = "calculate_RR"
    /\ DsdPresent
    /\ T >= 2
    /\ ~AllZero(Kdp)
    /\ \A f \in {Nt, W, D0, Nw, Dmax, Dm} : Len(f.val) = T

====
